---- MODULE Spec2Model ----
(***************************************************************************)
(* gollections: OrderedHashMap (src/orderedhashmap/orderedhashmap.go),      *)
(* Queue (src/queue/queue.go), Stack (src/unnamed/part_003), PriorityQueue *)
(* (src/priorityqueue/priorityqueue.go) and HashSet                        *)
(* (src/hashset/hashset.go).  A behaviour builds one container (active)    *)
(* and calls its methods; the other containers stay as declared.           *)
(* The heap of LinkedNode cells is a sequence of records; a pointer is an  *)
(* index into it and Nil is 0.  A cell is never reused: every allocation   *)
(* appends a fresh cell, as a Go allocation yields a fresh address.  A     *)
(* cell that Delete leaves unreachable from the map is garbage: the Go     *)
(* runtime frees it, and the heap then holds Freed at its address.         *)
(* A nil dereference is a Go runtime panic; nothing in the package         *)
(* recovers, so the program stops there (panicked).                        *)
(***************************************************************************)
EXTENDS Integers, Sequences, FiniteSets, TLC

\* ---- bounds ----
NumKeys == 3
MaxVal == 1
MaxNodes == 3
MaxCalls == 4
MaxInit == 2
MaxPrio == 1
MaxItems == 4
MaxSlice == 3
MaxWrites == 1

KeySet == 1..NumKeys
ValSet == 0..MaxVal
Nil == 0
ZeroValue == 0

VARIABLES
    heap,      \* allocated LinkedNode[KVPair] cells: [Key, Value, Next]
    first,     \* ohm.first
    last,      \* ohm.last
    size,      \* ohm.size
    m,         \* ohm.m : key -> pointer
    panicked,  \* a nil dereference has stopped the program
    call,      \* the call that produced this state, with its locals and result
    histKeys,  \* history: keys Set and not Deleted since, in the order of the inserting Set call
    histVal,   \* history: value passed to the most recent Set call of each key since its last Delete
    active,    \* the container this program has built
    snap,      \* the caller's slice returned by Keys/Values/ToSlice: its slots
    queue,     \* Queue: [cells, first, last, size]
    qhist,     \* history: [enq, deq] values enqueued / returned by Dequeue on a non-empty queue
    stack,     \* Stack: [cells, top, size]
    shist,     \* history: [pending] pushed and not popped; [pushed] the last run of Push calls; [popped] returned by the Pop calls since
    pq,        \* PriorityQueue: the slice of priorityQueueItem
    phist,     \* history: [out] priorities removed by the Dequeue calls since the last Enqueue or Clear; [stored] items enqueued and not removed
    setA,      \* HashSet: the map of a first set
    setB,      \* HashSet: the map of a second set
    rootQueue, \* gollections.Queue: [cells, first, last, size]
    rootStack  \* gollections.Stack: [cells, top, size]

ohmVars == <<heap, first, last, size, m, histKeys, histVal>>
rootVars == <<rootQueue, rootStack>>
libVars == <<queue, qhist, stack, shist, pq, phist, setA, setB, rootVars>>
vars == <<ohmVars, panicked, call, active, snap, libVars>>
ohmState == <<heap, first, last, size, m>>

Range(s) == {s[i] : i \in 1..Len(s)}

\* the nodes visited by `for node := p; node != nil; node = node.Next`
RECURSIVE Walk(_, _)
Walk(h, p) == IF p = Nil THEN <<>> ELSE <<p>> \o Walk(h, h[p].Next)

Size == size

IsEmpty == size = 0

Keys ==
    LET w == Walk(heap, first)
    IN  [i \in 1..Len(w) |-> heap[w[i]].Key]

Values_fromSecond ==
    LET w == Walk(heap, IF first = Nil THEN Nil ELSE heap[first].Next)
    IN  [i \in 1..Len(w) |-> heap[w[i]].Value]

Values ==
    LET w == Walk(heap, first)
    IN  [i \in 1..Len(w) |-> heap[w[i]].Value]

ToSlice_skipFirst ==
    LET w == Walk(heap, IF first = Nil THEN Nil ELSE heap[first].Next)
    IN  [i \in 1..Len(w) |-> [Key |-> heap[w[i]].Key, Value |-> heap[w[i]].Value]]

ToSlice ==
    LET w == Walk(heap, first)
    IN  [i \in 1..Len(w) |-> [Key |-> heap[w[i]].Key, Value |-> heap[w[i]].Value]]

Get_zeroIsAbsent(key) ==
    IF key \in DOMAIN m /\ heap[m[key]].Value # ZeroValue
    THEN <<heap[m[key]].Value, TRUE>>
    ELSE <<ZeroValue, FALSE>>

Get(key) ==
    IF key \in DOMAIN m
    THEN <<heap[m[key]].Value, TRUE>>
    ELSE <<ZeroValue, FALSE>>

\* Set, key present: node.Value.Value = value
StoreValue_alsoRelink(h, node, value) ==
    [h EXCEPT ![node].Value = value, ![node].Next = Nil]

StoreValue(h, node, value) == [h EXCEPT ![node].Value = value]

\* Delete: the loop `for prev != nil && prev.Next != node { prev = prev.Next }`
RECURSIVE FindPrev(_, _, _)
FindPrev(h, prev, node) ==
    IF prev # Nil /\ h[prev].Next # node
    THEN FindPrev(h, h[prev].Next, node)
    ELSE prev

\* Delete: `if prev != nil { prev.Next = node.Next }`
Splice_dropRest(h, prev, node) ==
    IF prev # Nil THEN [h EXCEPT ![prev].Next = Nil] ELSE h

Splice_keepNode(h, prev, node) == h

Splice(h, prev, node) ==
    IF prev # Nil THEN [h EXCEPT ![prev].Next = h[node].Next] ELSE h

\* Delete: `if node == ohm.last { ohm.last = nil }`
LastAfterDelete_stale(node) == last

LastAfterDelete(node) == IF node = last THEN Nil ELSE last

\* Delete: `ohm.size--` inside `if node, exists := ohm.m[key]; exists`
SizeAfterDelete_always(exists) == size - 1

SizeAfterDelete_never(exists) == size

SizeAfterDelete(exists) == IF exists THEN size - 1 ELSE size

Called(op, key, value, exists, node, prev, ret) ==
    [op |-> op, key |-> key, value |-> value, exists |-> exists,
     node |-> node, prev |-> prev, ret |-> ret]

HistSet(key, value) ==
    /\ histKeys' = IF key \in Range(histKeys) THEN histKeys ELSE Append(histKeys, key)
    /\ histVal' = [histVal EXCEPT ![key] = value]

HistDelete(key) ==
    /\ histKeys' = SelectSeq(histKeys, LAMBDA x : x # key)
    /\ histVal' = [histVal EXCEPT ![key] = ZeroValue]

\* a cell the garbage collector has freed
Freed == [Key |-> 0, Value |-> ZeroValue, Next |-> Nil]

\* garbage collection: cells not reachable from first, last or m are freed
Reclaim(h, f, l, mm) ==
    LET live == Range(Walk(h, f)) \cup Range(Walk(h, l))
                \cup UNION {Range(Walk(h, mm[k])) : k \in DOMAIN mm}
    IN  [p \in 1..Len(h) |-> IF p \in live THEN h[p] ELSE Freed]

\* ---- the containers a program has not built ----
NoSnapshot == [kind |-> "none", slots |-> <<>>, calls |-> 0]

\* history: the calls made by a program that keeps a returned slice
Tick(sn) == IF active = "ohm" THEN sn ELSE [sn EXCEPT !.calls = @ + 1]

\* &Queue[T]{}
EmptyQueue == [cells |-> <<>>, first |-> Nil, last |-> Nil, size |-> 0, panicked |-> FALSE]

\* &Stack[T]{}
EmptyStack == [cells |-> <<>>, top |-> Nil, size |-> 0]

NilSlice == [isNil |-> TRUE, elems |-> <<>>]

QueueIdle ==
    /\ queue = EmptyQueue
    /\ qhist = [enq |-> <<>>, deq |-> <<>>]

StackIdle ==
    /\ stack = EmptyStack
    /\ shist = [pending |-> <<>>, pushed |-> <<>>, popped |-> <<>>]

NoItems == [out |-> <<>>, stored |-> 0]

PQIdle ==
    /\ pq = <<>>
    /\ phist = NoItems

SetIdle ==
    /\ setA = <<>>
    /\ setB = <<>>

RootIdle ==
    /\ rootQueue = EmptyQueue
    /\ rootStack = EmptyStack

LibIdle == QueueIdle /\ StackIdle /\ PQIdle /\ SetIdle /\ RootIdle

\* no OrderedHashMap built, no slice returned
OhmIdle ==
    /\ heap = <<>>
    /\ first = Nil
    /\ last = Nil
    /\ size = 0
    /\ m = <<>>
    /\ histKeys = <<>>
    /\ histVal = [k \in KeySet |-> ZeroValue]
    /\ snap = NoSnapshot

\* NewOrderedHashMap
NewOrderedHashMap ==
    /\ OhmIdle
    /\ panicked = FALSE
    /\ call = Called("New", 0, ZeroValue, FALSE, Nil, Nil, Nil)
    /\ LibIdle

Init == NewOrderedHashMap /\ active = "ohm"

SetExisting(key, value) ==
    /\ ~panicked
    /\ key \in DOMAIN m
    /\ heap' = StoreValue(heap, m[key], value)
    /\ UNCHANGED <<first, last, size, m, panicked>>
    /\ call' = Called("Set", key, value, TRUE, m[key], Nil, Nil)
    /\ HistSet(key, value)
    /\ snap' = Tick(snap)
    /\ UNCHANGED <<active, libVars>>

SetNew(key, value) ==
    /\ ~panicked
    /\ key \notin DOMAIN m
    /\ Len(heap) < MaxNodes
    /\ LET newItem == Len(heap) + 1
           alloc == Append(heap, [Key |-> key, Value |-> value, Next |-> Nil])
       IN  /\ call' = Called("Set", key, value, FALSE, newItem, Nil, Nil)
           /\ IF first # Nil /\ last = Nil
              THEN \* ohm.last.Next = newItem with ohm.last == nil
                   /\ heap' = alloc
                   /\ panicked' = TRUE
                   /\ UNCHANGED <<first, last, size, m>>
              ELSE /\ heap' = IF first = Nil THEN alloc
                              ELSE [alloc EXCEPT ![last].Next = newItem]
                   /\ first' = IF first = Nil THEN newItem ELSE first
                   /\ last' = newItem
                   /\ size' = size + 1
                   /\ m' = [k \in DOMAIN m \cup {key} |-> IF k = key THEN newItem ELSE m[k]]
                   /\ UNCHANGED panicked
    /\ HistSet(key, value)
    /\ snap' = Tick(snap)
    /\ UNCHANGED <<active, libVars>>

Delete(key) ==
    /\ ~panicked
    /\ LET exists == key \in DOMAIN m
           node == IF exists THEN m[key] ELSE Nil
           prev == IF exists /\ node # first THEN FindPrev(heap, first, node) ELSE Nil
       IN  /\ call' = Called("Delete", key, ZeroValue, exists, node, prev, Nil)
           /\ size' = SizeAfterDelete(exists)
           /\ IF exists
              THEN /\ m' = [k \in DOMAIN m \ {key} |-> m[k]]
                   /\ first' = IF node = first THEN heap[node].Next ELSE first
                   /\ last' = LastAfterDelete(node)
                   /\ heap' = Reclaim(IF node = first THEN heap ELSE Splice(heap, prev, node),
                                      first', last', m')
              ELSE UNCHANGED <<heap, first, last, m>>
    /\ UNCHANGED panicked
    /\ HistDelete(key)
    /\ snap' = Tick(snap)
    /\ UNCHANGED <<active, libVars>>

Observe(op, key, ret) ==
    /\ ~panicked
    /\ call' = Called(op, key, ZeroValue, FALSE, Nil, Nil, ret)
    /\ UNCHANGED <<heap, first, last, size, m, panicked, histKeys, histVal>>
    /\ UNCHANGED <<active, snap, libVars>>

GetCall(key) == Observe("Get", key, Get(key))
SizeCall == Observe("Size", 0, Size)
IsEmptyCall == Observe("IsEmpty", 0, IsEmpty)
KeysCall == Observe("Keys", 0, Keys)
ValuesCall == Observe("Values", 0, Values)
ToSliceCall == Observe("ToSlice", 0, ToSlice)

Next ==
    \/ \E key \in KeySet, value \in ValSet : SetExisting(key, value)
    \/ \E key \in KeySet, value \in ValSet : SetNew(key, value)
    \/ \E key \in KeySet : Delete(key)
    \/ \E key \in KeySet : GetCall(key)
    \/ SizeCall
    \/ IsEmptyCall
    \/ KeysCall
    \/ ValuesCall
    \/ ToSliceCall

Spec == Init /\ [][Next]_vars

\* ---- the slice a caller holds after Keys(), Values() or ToSlice() ----
\* A slot of the caller's slice holds its own copy of the element (ref = Nil);
\* a slot that shared storage with a cell would refer to it (ref = the cell).

\* Keys: keys = append(keys, node.Value.Key)
KeySlot(p) == [ref |-> Nil, val |-> heap[p].Key]

\* Values: values = append(values, node.Value.Value)
ValueSlot_shared(p) == [ref |-> p, val |-> heap[p].Value]

ValueSlot(p) == [ref |-> Nil, val |-> heap[p].Value]

\* ToSlice: slice = append(slice, node.Value)
PairSlot(p) == [ref |-> Nil, val |-> [Key |-> heap[p].Key, Value |-> heap[p].Value]]

\* what the caller reads from its slice
SnapRead ==
    [i \in 1..Len(snap.slots) |->
        IF snap.slots[i].ref = Nil THEN snap.slots[i].val
        ELSE heap[snap.slots[i].ref].Value]

TakeKeys ==
    /\ ~panicked
    /\ snap.kind = "none"
    /\ LET w == Walk(heap, first)
       IN  snap' = [calls |-> snap.calls + 1, kind |-> "Keys", slots |-> [i \in 1..Len(w) |-> KeySlot(w[i])]]
    /\ call' = Called("Keys", 0, ZeroValue, FALSE, Nil, Nil, Keys)
    /\ UNCHANGED <<ohmVars, panicked, active, libVars>>

TakeValues ==
    /\ ~panicked
    /\ snap.kind = "none"
    /\ LET w == Walk(heap, first)
       IN  snap' = [calls |-> snap.calls + 1, kind |-> "Values", slots |-> [i \in 1..Len(w) |-> ValueSlot(w[i])]]
    /\ call' = Called("Values", 0, ZeroValue, FALSE, Nil, Nil, Values)
    /\ UNCHANGED <<ohmVars, panicked, active, libVars>>

TakeToSlice ==
    /\ ~panicked
    /\ snap.kind = "none"
    /\ LET w == Walk(heap, first)
       IN  snap' = [calls |-> snap.calls + 1, kind |-> "ToSlice", slots |-> [i \in 1..Len(w) |-> PairSlot(w[i])]]
    /\ call' = Called("ToSlice", 0, ZeroValue, FALSE, Nil, Nil, ToSlice)
    /\ UNCHANGED <<ohmVars, panicked, active, libVars>>

\* what a caller may store into a slot of the slice it holds
SlotValues ==
    CASE snap.kind = "Keys" -> KeySet
      [] snap.kind = "Values" -> ValSet
      [] snap.kind = "ToSlice" -> [Key : KeySet, Value : ValSet]
      [] OTHER -> {}

\* the caller executes slice[i] = x
Overwrite(i, x) ==
    /\ ~panicked
    /\ i \in 1..Len(snap.slots)
    /\ x \in SlotValues
    /\ IF snap.slots[i].ref = Nil
       THEN /\ snap' = [snap EXCEPT !.slots[i].val = x, !.calls = @ + 1]
            /\ UNCHANGED heap
       ELSE /\ heap' = [heap EXCEPT ![snap.slots[i].ref].Value = x]
            /\ snap' = [snap EXCEPT !.calls = @ + 1]
    /\ call' = Called("Overwrite", i, ZeroValue, FALSE, Nil, Nil, Nil)
    /\ UNCHANGED <<first, last, size, m, histKeys, histVal, panicked, active, libVars>>

NextSnap ==
    \/ \E key \in KeySet, value \in ValSet : snap.calls < MaxCalls /\ SetExisting(key, value)
    \/ \E key \in KeySet, value \in ValSet : snap.calls < MaxCalls /\ SetNew(key, value)
    \/ \E key \in KeySet : snap.calls < MaxCalls /\ Delete(key)
    \/ snap.calls < MaxCalls /\ TakeKeys
    \/ snap.calls < MaxCalls /\ TakeValues
    \/ snap.calls < MaxCalls /\ TakeToSlice
    \/ \E i \in 1..MaxNodes, x \in SlotValues : snap.calls < MaxCalls /\ Overwrite(i, x)

InitSnap == NewOrderedHashMap /\ active = "ohm.slice"

SpecSnap == InitSnap /\ [][NextSnap]_vars

TypeOK ==
    /\ first \in 0..Len(heap)
    /\ last \in 0..Len(heap)
    /\ size \in 0..NumKeys
    /\ DOMAIN m \subseteq KeySet
    /\ panicked \in BOOLEAN
\* ---- Queue (src/queue/queue.go) ----
\* the slices a constructor is called with: nil, or up to MaxInit elements
SeqsUpTo(S, n) == UNION {[1..k -> S] : k \in 0..n}

SliceInputs == {NilSlice} \cup {[isNil |-> FALSE, elems |-> e] : e \in SeqsUpTo(ValSet, MaxInit)}

\* Enqueue, with q.last == nil on a non-empty chain a nil dereference
QEnqueue_front(q, value) ==
    LET newItem == Len(q.cells) + 1
    IN  [cells |-> Append(q.cells, [Value |-> value, Next |-> q.first]),
         first |-> newItem,
         last |-> IF q.first = Nil THEN newItem ELSE q.last,
         size |-> q.size + 1,
         panicked |-> FALSE]

QEnqueue(q, value) ==
    LET newItem == Len(q.cells) + 1
        alloc == Append(q.cells, [Value |-> value, Next |-> Nil])
    IN  IF q.first # Nil /\ q.last = Nil
        THEN [q EXCEPT !.cells = alloc, !.panicked = TRUE]
        ELSE [cells |-> IF q.first = Nil THEN alloc
                        ELSE [alloc EXCEPT ![q.last].Next = newItem],
              first |-> IF q.first = Nil THEN newItem ELSE q.first,
              last |-> newItem,
              size |-> q.size + 1,
              panicked |-> FALSE]

\* New: for _, v := range sli { q.Enqueue(v) }
RECURSIVE QEnqueueAll(_, _)
QEnqueueAll(q, elems) ==
    IF elems = <<>> THEN q ELSE QEnqueueAll(QEnqueue(q, Head(elems)), Tail(elems))

QNew(sli) == IF sli.isNil THEN EmptyQueue ELSE QEnqueueAll(EmptyQueue, sli.elems)

\* Dequeue: the queue afterwards and the value returned
QDequeue_unguarded(q) ==
    [queue |-> [q EXCEPT !.first = IF q.first # Nil THEN q.cells[q.first].Next ELSE Nil,
                         !.last = IF q.first # Nil /\ q.cells[q.first].Next # Nil
                                  THEN q.last ELSE Nil,
                         !.size = q.size - 1],
     value |-> IF q.first # Nil THEN q.cells[q.first].Value ELSE ZeroValue]

QDequeue_keepLast(q) ==
    IF q.first # Nil
    THEN [queue |-> [q EXCEPT !.first = q.cells[q.first].Next, !.size = q.size - 1],
          value |-> q.cells[q.first].Value]
    ELSE [queue |-> q, value |-> ZeroValue]

QDequeue(q) ==
    IF q.first # Nil
    THEN LET next == q.cells[q.first].Next
         IN  [queue |-> [q EXCEPT !.first = next,
                                  !.last = IF next = Nil THEN Nil ELSE q.last,
                                  !.size = q.size - 1],
              value |-> q.cells[q.first].Value]
    ELSE [queue |-> q, value |-> ZeroValue]

QPeek_last(q) == IF q.last # Nil THEN q.cells[q.last].Value ELSE ZeroValue

QPeek(q) == IF q.first # Nil THEN q.cells[q.first].Value ELSE ZeroValue

QSize(q) == q.size

QIsEmpty(q) == q.size = 0

QToSlice(q) ==
    LET w == Walk(q.cells, q.first)
    IN  [i \in 1..Len(w) |-> q.cells[w[i]].Value]

QClear(q) == [q EXCEPT !.first = Nil, !.last = Nil, !.size = 0]

notQueue == <<ohmVars, active, snap, stack, shist, pq, phist, setA, setB, rootVars>>

InitQueue ==
    /\ \E sli \in SliceInputs :
         /\ queue = QNew(sli)
         /\ qhist = [enq |-> sli.elems, deq |-> <<>>]
    /\ call = Called("queue.New", 0, ZeroValue, FALSE, Nil, Nil, Nil)
    /\ panicked = FALSE
    /\ active = "queue"
    /\ OhmIdle /\ StackIdle /\ PQIdle /\ SetIdle /\ RootIdle

QueueEnqueue(value) ==
    /\ ~panicked
    /\ Len(queue.cells) < MaxNodes
    /\ queue' = QEnqueue(queue, value)
    /\ panicked' = queue'.panicked
    /\ qhist' = [qhist EXCEPT !.enq = Append(@, value)]
    /\ call' = Called("queue.Enqueue", 0, value, queue.first # Nil, Nil, Nil, Nil)
    /\ UNCHANGED notQueue

QueueDequeue ==
    /\ ~panicked
    /\ queue' = QDequeue(queue).queue
    /\ qhist' = IF Len(qhist.enq) > Len(qhist.deq)
                THEN [qhist EXCEPT !.deq = Append(@, QDequeue(queue).value)]
                ELSE qhist
    /\ call' = Called("queue.Dequeue", 0, ZeroValue, queue.first # Nil, Nil, Nil,
                      QDequeue(queue).value)
    /\ UNCHANGED <<panicked, notQueue>>

QueueObserve(op, ret) ==
    /\ ~panicked
    /\ call' = Called(op, 0, ZeroValue, queue.first # Nil, Nil, Nil, ret)
    /\ UNCHANGED <<queue, qhist, panicked, notQueue>>

QueuePeek == QueueObserve("queue.Peek", QPeek(queue))
QueueSize == QueueObserve("queue.Size", QSize(queue))
QueueIsEmpty == QueueObserve("queue.IsEmpty", QIsEmpty(queue))
QueueToSlice == QueueObserve("queue.ToSlice", QToSlice(queue))

QueueClear ==
    /\ ~panicked
    /\ queue' = QClear(queue)
    /\ qhist' = [enq |-> <<>>, deq |-> <<>>]
    /\ call' = Called("queue.Clear", 0, ZeroValue, queue.first # Nil, Nil, Nil, Nil)
    /\ UNCHANGED <<panicked, notQueue>>

NextQueue ==
    \/ \E value \in ValSet : QueueEnqueue(value)
    \/ QueueDequeue
    \/ QueuePeek
    \/ QueueSize
    \/ QueueIsEmpty
    \/ QueueToSlice
    \/ QueueClear

SpecQueue == InitQueue /\ [][NextQueue]_vars

\* ---- Stack (src/unnamed/part_003) ----
\* Push
SPush_unlinked(st, value) ==
    [cells |-> Append(st.cells, [Value |-> value, Next |-> Nil]),
     top |-> Len(st.cells) + 1,
     size |-> st.size + 1]

SPush_selfLoop(st, value) ==
    [cells |-> Append(st.cells, [Value |-> value, Next |-> Len(st.cells) + 1]),
     top |-> Len(st.cells) + 1,
     size |-> st.size + 1]

SPush(st, value) ==
    [cells |-> Append(st.cells, [Value |-> value,
                                 Next |-> IF st.top = Nil THEN Nil ELSE st.top]),
     top |-> Len(st.cells) + 1,
     size |-> st.size + 1]

\* New: for _, v := range sli { s.Push(v) }
RECURSIVE SPushAll(_, _)
SPushAll(st, elems) ==
    IF elems = <<>> THEN st ELSE SPushAll(SPush(st, Head(elems)), Tail(elems))

Reverse(seq) == [i \in 1..Len(seq) |-> seq[Len(seq) + 1 - i]]

SNew_fromLast(sli) == IF sli.isNil THEN EmptyStack ELSE SPushAll(EmptyStack, Reverse(sli.elems))

SNew(sli) == IF sli.isNil THEN EmptyStack ELSE SPushAll(EmptyStack, sli.elems)

\* Pop: the stack afterwards and the value returned
SPop_keepSize(st) ==
    IF st.top # Nil
    THEN [stack |-> [st EXCEPT !.top = st.cells[st.top].Next],
          value |-> st.cells[st.top].Value]
    ELSE [stack |-> st, value |-> ZeroValue]

SPop_clearTop(st) ==
    IF st.top # Nil
    THEN [stack |-> [st EXCEPT !.top = Nil, !.size = st.size - 1],
          value |-> st.cells[st.top].Value]
    ELSE [stack |-> st, value |-> ZeroValue]

SPop(st) ==
    IF st.top # Nil
    THEN [stack |-> [st EXCEPT !.top = st.cells[st.top].Next, !.size = st.size - 1],
          value |-> st.cells[st.top].Value]
    ELSE [stack |-> st, value |-> ZeroValue]

SPeek(st) == IF st.top # Nil THEN st.cells[st.top].Value ELSE ZeroValue

SSize(st) == st.size

SIsEmpty(st) == st.size = 0

SToSlice(st) ==
    LET w == Walk(st.cells, st.top)
    IN  [i \in 1..Len(w) |-> st.cells[w[i]].Value]

SClear_keepTop(st) == [st EXCEPT !.size = 0]

SClear(st) == [st EXCEPT !.top = Nil, !.size = 0]

notStack == <<ohmVars, active, snap, queue, qhist, pq, phist, setA, setB, rootVars>>

InitStack ==
    /\ \E sli \in SliceInputs :
         /\ stack = SNew(sli)
         /\ shist = [pending |-> sli.elems, pushed |-> sli.elems, popped |-> <<>>]
    /\ call = Called("stack.New", 0, ZeroValue, FALSE, Nil, Nil, Nil)
    /\ panicked = FALSE
    /\ active = "stack"
    /\ OhmIdle /\ QueueIdle /\ PQIdle /\ SetIdle /\ RootIdle

StackPush(value) ==
    /\ ~panicked
    /\ Len(stack.cells) < MaxNodes
    /\ stack' = SPush(stack, value)
    /\ shist' = [pending |-> Append(shist.pending, value),
                 pushed |-> IF shist.popped = <<>> THEN Append(shist.pushed, value)
                            ELSE <<value>>,
                 popped |-> <<>>]
    /\ call' = Called("stack.Push", 0, value, stack.top # Nil, Nil, Nil, Nil)
    /\ UNCHANGED <<panicked, notStack>>

StackPop ==
    /\ ~panicked
    /\ stack' = SPop(stack).stack
    /\ shist' = IF shist.pending # <<>>
                THEN [shist EXCEPT !.pending = SubSeq(@, 1, Len(@) - 1),
                                   !.popped = Append(@, SPop(stack).value)]
                ELSE shist
    /\ call' = Called("stack.Pop", 0, ZeroValue, stack.top # Nil, Nil, Nil, SPop(stack).value)
    /\ UNCHANGED <<panicked, notStack>>

StackObserve(op, ret) ==
    /\ ~panicked
    /\ call' = Called(op, 0, ZeroValue, stack.top # Nil, Nil, Nil, ret)
    /\ UNCHANGED <<stack, shist, panicked, notStack>>

StackPeek == StackObserve("stack.Peek", SPeek(stack))
StackSize == StackObserve("stack.Size", SSize(stack))
StackIsEmpty == StackObserve("stack.IsEmpty", SIsEmpty(stack))
StackToSlice == StackObserve("stack.ToSlice", SToSlice(stack))

StackClear ==
    /\ ~panicked
    /\ stack' = SClear(stack)
    /\ shist' = [pending |-> <<>>, pushed |-> <<>>, popped |-> <<>>]
    /\ call' = Called("stack.Clear", 0, ZeroValue, stack.top # Nil, Nil, Nil, Nil)
    /\ UNCHANGED <<panicked, notStack>>

NextStack ==
    \/ \E value \in ValSet : StackPush(value)
    \/ StackPop
    \/ StackPeek
    \/ StackSize
    \/ StackIsEmpty
    \/ StackToSlice
    \/ StackClear

SpecStack == InitStack /\ [][NextStack]_vars

\* ---- a program that builds a Stack or a Queue ----
InitStackQueue == InitStack \/ InitQueue

NextStackQueue ==
    \/ active = "stack" /\ NextStack
    \/ active = "queue" /\ NextQueue

SpecStackQueue == InitStackQueue /\ [][NextStackQueue]_vars

\* ---- the slice a ToSlice call of a Queue or a Stack returned, kept by the caller ----
\* slice = append(slice, current.Value): the slot holds a copy of the value
CellSlot_shared(cells, p) == [ref |-> p, val |-> cells[p].Value]

CellSlot(cells, p) == [ref |-> Nil, val |-> cells[p].Value]

\* the nodes the slice was filled from
SliceCells == IF snap.kind = "queue.ToSlice" THEN queue.cells ELSE stack.cells

\* what the caller reads from its slice
SliceRead ==
    [i \in 1..Len(snap.slots) |->
        IF snap.slots[i].ref = Nil THEN snap.slots[i].val
        ELSE SliceCells[snap.slots[i].ref].Value]

QueueKeepToSlice ==
    /\ ~panicked
    /\ snap.kind = "none"
    /\ LET w == Walk(queue.cells, queue.first)
       IN  snap' = [snap EXCEPT !.kind = "queue.ToSlice",
                                !.slots = [i \in 1..Len(w) |-> CellSlot(queue.cells, w[i])]]
    /\ call' = Called("queue.ToSlice", 0, ZeroValue, queue.first # Nil, Nil, Nil, QToSlice(queue))
    /\ UNCHANGED <<ohmVars, panicked, active, libVars>>

StackKeepToSlice ==
    /\ ~panicked
    /\ snap.kind = "none"
    /\ LET w == Walk(stack.cells, stack.top)
       IN  snap' = [snap EXCEPT !.kind = "stack.ToSlice",
                                !.slots = [i \in 1..Len(w) |-> CellSlot(stack.cells, w[i])]]
    /\ call' = Called("stack.ToSlice", 0, ZeroValue, stack.top # Nil, Nil, Nil, SToSlice(stack))
    /\ UNCHANGED <<ohmVars, panicked, active, libVars>>

\* the caller executes slice[i] = x on the slice of a Queue
QueueOverwrite(i, x) ==
    /\ ~panicked
    /\ snap.kind = "queue.ToSlice"
    /\ i \in 1..Len(snap.slots)
    /\ IF snap.slots[i].ref = Nil
       THEN /\ snap' = [snap EXCEPT !.slots[i].val = x]
            /\ UNCHANGED queue
       ELSE /\ queue' = [queue EXCEPT !.cells[snap.slots[i].ref].Value = x]
            /\ UNCHANGED snap
    /\ call' = Called("queue.Overwrite", i, x, queue.first # Nil, Nil, Nil, Nil)
    /\ UNCHANGED <<ohmVars, panicked, active, qhist, stack, shist, pq, phist, setA, setB, rootVars>>

\* the caller executes slice[i] = x on the slice of a Stack
StackOverwrite(i, x) ==
    /\ ~panicked
    /\ snap.kind = "stack.ToSlice"
    /\ i \in 1..Len(snap.slots)
    /\ IF snap.slots[i].ref = Nil
       THEN /\ snap' = [snap EXCEPT !.slots[i].val = x]
            /\ UNCHANGED stack
       ELSE /\ stack' = [stack EXCEPT !.cells[snap.slots[i].ref].Value = x]
            /\ UNCHANGED snap
    /\ call' = Called("stack.Overwrite", i, x, stack.top # Nil, Nil, Nil, Nil)
    /\ UNCHANGED <<ohmVars, panicked, active, queue, qhist, shist, pq, phist, setA, setB, rootVars>>

\* the caller works on the container, keeps the slice of one ToSlice call, and
\* from then on writes to the slice and reads the container
NextSlices ==
    \/ active = "stack" /\ snap.kind = "none" /\ NextStack
    \/ active = "queue" /\ snap.kind = "none" /\ NextQueue
    \/ active = "queue" /\ QueueKeepToSlice
    \/ active = "stack" /\ StackKeepToSlice
    \/ active = "queue" /\ snap.kind # "none" /\ (QueuePeek \/ QueueToSlice \/ QueueSize)
    \/ active = "stack" /\ snap.kind # "none" /\ (StackPeek \/ StackToSlice \/ StackSize)
    \/ \E i \in 1..MaxNodes, x \in ValSet : active = "queue" /\ QueueOverwrite(i, x)
    \/ \E i \in 1..MaxNodes, x \in ValSet : active = "stack" /\ StackOverwrite(i, x)

SpecSlices == InitStackQueue /\ [][NextSlices]_vars

\* ---- package gollections: the root-package Queue and Stack ----
\* Enqueue: q.last.Next on a nil last is a nil dereference
RootEnqueue(q, value) ==
    LET newItem == Len(q.cells) + 1
        alloc == Append(q.cells, [Value |-> value, Next |-> Nil])
    IN  IF q.first # Nil /\ q.last = Nil
        THEN [q EXCEPT !.cells = alloc, !.panicked = TRUE]
        ELSE [cells |-> IF q.first = Nil THEN alloc
                        ELSE [alloc EXCEPT ![q.last].Next = newItem],
              first |-> IF q.first = Nil THEN newItem ELSE q.first,
              last |-> newItem,
              size |-> q.size + 1,
              panicked |-> FALSE]

RECURSIVE RootEnqueueAll(_, _)
RootEnqueueAll(q, elems) ==
    IF elems = <<>> THEN q ELSE RootEnqueueAll(RootEnqueue(q, Head(elems)), Tail(elems))

NewQueue(sli) == IF sli.isNil THEN EmptyQueue ELSE RootEnqueueAll(EmptyQueue, sli.elems)

RootDequeue_keepSize(q) ==
    IF q.first # Nil
    THEN LET next == q.cells[q.first].Next
         IN  [queue |-> [q EXCEPT !.first = next,
                                  !.last = IF next = Nil THEN Nil ELSE q.last],
              value |-> q.cells[q.first].Value]
    ELSE [queue |-> q, value |-> ZeroValue]

RootDequeue(q) ==
    IF q.first # Nil
    THEN LET next == q.cells[q.first].Next
         IN  [queue |-> [q EXCEPT !.first = next,
                                  !.last = IF next = Nil THEN Nil ELSE q.last,
                                  !.size = q.size - 1],
              value |-> q.cells[q.first].Value]
    ELSE [queue |-> q, value |-> ZeroValue]

RootQueuePeek(q) == IF q.first # Nil THEN q.cells[q.first].Value ELSE ZeroValue

RootQueueSize(q) == q.size

RootQueueIsEmpty(q) == q.size = 0

RootQueueToSlice(q) ==
    LET w == Walk(q.cells, q.first)
    IN  [i \in 1..Len(w) |-> q.cells[w[i]].Value]

RootQueueClear(q) == [q EXCEPT !.first = Nil, !.last = Nil, !.size = 0]

RootPush(st, value) ==
    [cells |-> Append(st.cells, [Value |-> value,
                                 Next |-> IF st.top = Nil THEN Nil ELSE st.top]),
     top |-> Len(st.cells) + 1,
     size |-> st.size + 1]

RECURSIVE RootPushAll(_, _)
RootPushAll(st, elems) ==
    IF elems = <<>> THEN st ELSE RootPushAll(RootPush(st, Head(elems)), Tail(elems))

NewStack(sli) == IF sli.isNil THEN EmptyStack ELSE RootPushAll(EmptyStack, sli.elems)

RootPop(st) ==
    IF st.top # Nil
    THEN [stack |-> [st EXCEPT !.top = st.cells[st.top].Next, !.size = st.size - 1],
          value |-> st.cells[st.top].Value]
    ELSE [stack |-> st, value |-> ZeroValue]

RootStackPeek(st) == IF st.top # Nil THEN st.cells[st.top].Value ELSE ZeroValue

RootStackSize(st) == st.size

RootStackIsEmpty(st) == st.size = 0

RootStackToSlice(st) ==
    LET w == Walk(st.cells, st.top)
    IN  [i \in 1..Len(w) |-> st.cells[w[i]].Value]

RootStackClear(st) == [st EXCEPT !.top = Nil, !.size = 0]

\* ---- queue.Queue beside gollections.Queue, stack.Stack beside
\* ---- gollections.Stack, given the same calls; call.ret is the pair of
\* ---- the values the two calls returned
notPairs == <<ohmVars, active, snap, qhist, shist, pq, phist, setA, setB>>

InitPairQueue ==
    /\ \E sli \in SliceInputs :
         /\ queue = QNew(sli)
         /\ rootQueue = NewQueue(sli)
    /\ qhist = [enq |-> <<>>, deq |-> <<>>]
    /\ rootStack = EmptyStack
    /\ call = Called("pair.NewQueue", 0, ZeroValue, FALSE, Nil, Nil, Nil)
    /\ panicked = FALSE
    /\ active = "pair.queue"
    /\ OhmIdle /\ StackIdle /\ PQIdle /\ SetIdle

InitPairStack ==
    /\ \E sli \in SliceInputs :
         /\ stack = SNew(sli)
         /\ rootStack = NewStack(sli)
    /\ shist = [pending |-> <<>>, pushed |-> <<>>, popped |-> <<>>]
    /\ rootQueue = EmptyQueue
    /\ call = Called("pair.NewStack", 0, ZeroValue, FALSE, Nil, Nil, Nil)
    /\ panicked = FALSE
    /\ active = "pair.stack"
    /\ OhmIdle /\ QueueIdle /\ PQIdle /\ SetIdle

InitPairs == InitPairQueue \/ InitPairStack

PairEnqueue(value) ==
    /\ ~panicked
    /\ active = "pair.queue"
    /\ Len(queue.cells) < MaxNodes
    /\ queue' = QEnqueue(queue, value)
    /\ rootQueue' = RootEnqueue(rootQueue, value)
    /\ panicked' = (queue'.panicked \/ rootQueue'.panicked)
    /\ call' = Called("pair.Enqueue", 0, value, queue.first # Nil, Nil, Nil, Nil)
    /\ UNCHANGED <<stack, rootStack, notPairs>>

PairDequeue ==
    /\ ~panicked
    /\ active = "pair.queue"
    /\ queue' = QDequeue(queue).queue
    /\ rootQueue' = RootDequeue(rootQueue).queue
    /\ call' = Called("pair.Dequeue", 0, ZeroValue, queue.first # Nil, Nil, Nil,
                      <<QDequeue(queue).value, RootDequeue(rootQueue).value>>)
    /\ UNCHANGED <<panicked, stack, rootStack, notPairs>>

PairQueueClear ==
    /\ ~panicked
    /\ active = "pair.queue"
    /\ queue' = QClear(queue)
    /\ rootQueue' = RootQueueClear(rootQueue)
    /\ call' = Called("pair.Queue.Clear", 0, ZeroValue, queue.first # Nil, Nil, Nil, Nil)
    /\ UNCHANGED <<panicked, stack, rootStack, notPairs>>

PairPush(value) ==
    /\ ~panicked
    /\ active = "pair.stack"
    /\ Len(stack.cells) < MaxNodes
    /\ stack' = SPush(stack, value)
    /\ rootStack' = RootPush(rootStack, value)
    /\ call' = Called("pair.Push", 0, value, stack.top # Nil, Nil, Nil, Nil)
    /\ UNCHANGED <<panicked, queue, rootQueue, notPairs>>

PairPop ==
    /\ ~panicked
    /\ active = "pair.stack"
    /\ stack' = SPop(stack).stack
    /\ rootStack' = RootPop(rootStack).stack
    /\ call' = Called("pair.Pop", 0, ZeroValue, stack.top # Nil, Nil, Nil,
                      <<SPop(stack).value, RootPop(rootStack).value>>)
    /\ UNCHANGED <<panicked, queue, rootQueue, notPairs>>

PairStackClear ==
    /\ ~panicked
    /\ active = "pair.stack"
    /\ stack' = SClear(stack)
    /\ rootStack' = RootStackClear(rootStack)
    /\ call' = Called("pair.Stack.Clear", 0, ZeroValue, stack.top # Nil, Nil, Nil, Nil)
    /\ UNCHANGED <<panicked, queue, rootQueue, notPairs>>

PairObserve(container, op, ret) ==
    /\ ~panicked
    /\ active = container
    /\ call' = Called(op, 0, ZeroValue, FALSE, Nil, Nil, ret)
    /\ UNCHANGED <<panicked, queue, rootQueue, stack, rootStack, notPairs>>

NextPairs ==
    \/ \E value \in ValSet : PairEnqueue(value)
    \/ PairDequeue
    \/ PairQueueClear
    \/ PairObserve("pair.queue", "pair.Queue.Peek",
                   <<QPeek(queue), RootQueuePeek(rootQueue)>>)
    \/ PairObserve("pair.queue", "pair.Queue.Size",
                   <<QSize(queue), RootQueueSize(rootQueue)>>)
    \/ PairObserve("pair.queue", "pair.Queue.IsEmpty",
                   <<QIsEmpty(queue), RootQueueIsEmpty(rootQueue)>>)
    \/ PairObserve("pair.queue", "pair.Queue.ToSlice",
                   <<QToSlice(queue), RootQueueToSlice(rootQueue)>>)
    \/ \E value \in ValSet : PairPush(value)
    \/ PairPop
    \/ PairStackClear
    \/ PairObserve("pair.stack", "pair.Stack.Peek",
                   <<SPeek(stack), RootStackPeek(rootStack)>>)
    \/ PairObserve("pair.stack", "pair.Stack.Size",
                   <<SSize(stack), RootStackSize(rootStack)>>)
    \/ PairObserve("pair.stack", "pair.Stack.IsEmpty",
                   <<SIsEmpty(stack), RootStackIsEmpty(rootStack)>>)
    \/ PairObserve("pair.stack", "pair.Stack.ToSlice",
                   <<SToSlice(stack), RootStackToSlice(rootStack)>>)

SpecPairs == InitPairs /\ [][NextPairs]_vars

\* ---- a program that builds one of the three linked containers ----
InitChains == Init \/ InitQueue \/ InitStack

NextChains ==
    \/ active = "ohm" /\ Next
    \/ active = "queue" /\ NextQueue
    \/ active = "stack" /\ NextStack

SpecChains == InitChains /\ [][NextChains]_vars

\* ---- PriorityQueue (src/priorityqueue/priorityqueue.go) ----
\* The slice is 0-indexed in the code: index i of the code is position i + 1.
PrioSet == (0 - MaxPrio)..MaxPrio

Item(value, priority) == [value |-> value, priority |-> priority]

PLen(h) == Len(h)

PLess_reversed(h, i, j) == h[i + 1].priority > h[j + 1].priority

PLess_orEqual(h, i, j) == h[i + 1].priority <= h[j + 1].priority

PLess(h, i, j) == h[i + 1].priority < h[j + 1].priority

PSwap(h, i, j) == [h EXCEPT ![i + 1] = h[j + 1], ![j + 1] = h[i + 1]]

\* the heap.Interface methods Push and Pop: append, cut the last item off
PPush_overLast(h, x) == IF h = <<>> THEN <<x>> ELSE [h EXCEPT ![Len(h)] = x]

PPush(h, x) == Append(h, x)

PPop(h) == [heap |-> SubSeq(h, 1, Len(h) - 1), item |-> h[Len(h)]]

\* integer division of the code truncates toward zero
Quot(a, b) == IF a < 0 THEN 0 - ((0 - a) \div b) ELSE a \div b

\* container/heap: up(h, j), the sift-up that heap.Push runs
RECURSIVE up(_, _)
up(h, j) ==
    LET i == Quot(j - 1, 2)
    IN  IF i = j \/ ~PLess(h, j, i) THEN h ELSE up(PSwap(h, i, j), i)

\* container/heap: down(h, i0, n), the sift-down that heap.Pop runs
RECURSIVE down_leftOnly(_, _, _)
down_leftOnly(h, i, n) ==
    LET j1 == 2 * i + 1
    IN  IF j1 >= n THEN h
        ELSE IF ~PLess(h, j1, i) THEN h
        ELSE down_leftOnly(PSwap(h, i, j1), j1, n)

RECURSIVE down(_, _, _)
down(h, i, n) ==
    LET j1 == 2 * i + 1
        j2 == j1 + 1
        j  == IF j2 < n /\ PLess(h, j2, j1) THEN j2 ELSE j1
    IN  IF j1 >= n THEN h
        ELSE IF ~PLess(h, j, i) THEN h
        ELSE down(PSwap(h, i, j), j, n)

\* container/heap: heap.Push(h, x) is h.Push(x); up(h, h.Len()-1)
heapPush(h, x) == up(PPush(h, x), PLen(PPush(h, x)) - 1)

\* container/heap: heap.Pop(h) is n := h.Len()-1; h.Swap(0, n); down(h, 0, n); h.Pop()
heapPop(h) == PPop(down(PSwap(h, 0, PLen(h) - 1), 0, PLen(h) - 1))

NewPriorityQueue == <<>>

PEnqueue(h, value, priority) == heapPush(h, Item(value, priority))

\* Dequeue: the queue afterwards and the value returned
PDequeue(h) ==
    IF PLen(h) = 0
    THEN [pq |-> h, value |-> ZeroValue]
    ELSE [pq |-> heapPop(h).heap, value |-> heapPop(h).item.value]

PPeek_last(h) == IF PLen(h) = 0 THEN ZeroValue ELSE h[Len(h)].value

PPeek(h) == IF PLen(h) = 0 THEN ZeroValue ELSE h[1].value

PSize(h) == Len(h)

PIsEmpty(h) == Len(h) = 0

PClear_dropLast(h) == IF h = <<>> THEN h ELSE SubSeq(h, 1, Len(h) - 1)

PClear_keepFirst(h) == IF h = <<>> THEN h ELSE <<h[1]>>

PClear(h) == SubSeq(h, 1, 0)

PToSlice(h) == [i \in 1..Len(h) |-> h[i].value]

notPQ == <<ohmVars, active, snap, queue, qhist, stack, shist, setA, setB, rootVars>>

InitPQ ==
    /\ pq = NewPriorityQueue
    /\ phist = NoItems
    /\ call = Called("pq.New", 0, ZeroValue, FALSE, Nil, Nil, Nil)
    /\ panicked = FALSE
    /\ active = "pq"
    /\ OhmIdle /\ QueueIdle /\ StackIdle /\ SetIdle /\ RootIdle

\* call.key carries the priority argument
PQEnqueue(value, priority) ==
    /\ ~panicked
    /\ Len(pq) < MaxItems
    /\ pq' = PEnqueue(pq, value, priority)
    /\ phist' = [out |-> <<>>, stored |-> phist.stored + 1]
    /\ call' = Called("pq.Enqueue", priority, value, pq # <<>>, Nil, Nil, Nil)
    /\ UNCHANGED <<panicked, notPQ>>

PQDequeue ==
    /\ ~panicked
    /\ pq' = PDequeue(pq).pq
    /\ phist' = IF phist.stored > 0 /\ pq # <<>>
                THEN [out |-> Append(phist.out, heapPop(pq).item.priority),
                      stored |-> phist.stored - 1]
                ELSE phist
    /\ call' = Called("pq.Dequeue", 0, ZeroValue, pq # <<>>, Nil, Nil, PDequeue(pq).value)
    /\ UNCHANGED <<panicked, notPQ>>

PQObserve(op, ret) ==
    /\ ~panicked
    /\ call' = Called(op, 0, ZeroValue, pq # <<>>, Nil, Nil, ret)
    /\ UNCHANGED <<pq, phist, panicked, notPQ>>

PQPeek == PQObserve("pq.Peek", PPeek(pq))
PQSize == PQObserve("pq.Size", PSize(pq))
PQIsEmpty == PQObserve("pq.IsEmpty", PIsEmpty(pq))
PQToSlice == PQObserve("pq.ToSlice", PToSlice(pq))

PQClear ==
    /\ ~panicked
    /\ pq' = PClear(pq)
    /\ phist' = NoItems
    /\ call' = Called("pq.Clear", 0, ZeroValue, pq # <<>>, Nil, Nil, Nil)
    /\ UNCHANGED <<panicked, notPQ>>

NextPQ ==
    \/ \E value \in ValSet, priority \in PrioSet : PQEnqueue(value, priority)
    \/ PQDequeue
    \/ PQPeek
    \/ PQSize
    \/ PQIsEmpty
    \/ PQToSlice
    \/ PQClear

SpecPQ == InitPQ /\ [][NextPQ]_vars

\* ---- a program that never calls Clear ----
NextPQNoClear ==
    \/ \E value \in ValSet, priority \in PrioSet : PQEnqueue(value, priority)
    \/ PQDequeue
    \/ PQSize

SpecPQNoClear == InitPQ /\ [][NextPQNoClear]_vars

\* ---- the slice a ToSlice call of a PriorityQueue returned, kept by the caller ----
\* slice[i] = item.value: the slot holds a copy of the value
PValueSlot_shared(h, i) == [ref |-> i, val |-> h[i].value]

PValueSlot(h, i) == [ref |-> Nil, val |-> h[i].value]

\* what the caller reads from its slice
PSliceRead ==
    [i \in 1..Len(snap.slots) |->
        IF snap.slots[i].ref = Nil THEN snap.slots[i].val
        ELSE pq[snap.slots[i].ref].value]

PQKeepToSlice ==
    /\ ~panicked
    /\ snap.kind = "none"
    /\ snap' = [snap EXCEPT !.kind = "pq.ToSlice",
                            !.slots = [i \in 1..Len(pq) |-> PValueSlot(pq, i)]]
    /\ call' = Called("pq.ToSlice", 0, ZeroValue, pq # <<>>, Nil, Nil, PToSlice(pq))
    /\ UNCHANGED <<ohmVars, panicked, active, libVars>>

\* the caller executes slice[i] = x
PQOverwrite(i, x) ==
    /\ ~panicked
    /\ snap.kind = "pq.ToSlice"
    /\ snap.calls < MaxWrites
    /\ i \in 1..Len(snap.slots)
    /\ IF snap.slots[i].ref = Nil
       THEN /\ snap' = [snap EXCEPT !.slots[i].val = x, !.calls = @ + 1]
            /\ UNCHANGED pq
       ELSE /\ pq' = [pq EXCEPT ![snap.slots[i].ref].value = x]
            /\ snap' = [snap EXCEPT !.calls = @ + 1]
    /\ call' = Called("pq.Overwrite", i, x, pq # <<>>, Nil, Nil, Nil)
    /\ UNCHANGED <<ohmVars, panicked, active, queue, qhist, stack, shist, phist, setA, setB, rootVars>>

\* the caller fills the queue up to MaxNodes items, keeps the slice of one
\* ToSlice call, and from then on writes to the slice and reads the queue
NextPQSlice ==
    \/ \E value \in ValSet, priority \in PrioSet :
          snap.kind = "none" /\ Len(pq) < MaxNodes /\ PQEnqueue(value, priority)
    \/ snap.kind = "none" /\ PQDequeue
    \/ snap.kind = "none" /\ PQClear
    \/ PQPeek
    \/ PQKeepToSlice
    \/ \E i \in 1..MaxNodes, x \in ValSet : PQOverwrite(i, x)

SpecPQSlice == InitPQ /\ [][NextPQSlice]_vars

\* ---- a program that feeds a PriorityQueue and a Queue the same values ----
\* Every value is enqueued into both, into the PriorityQueue with one and the
\* same priority; a Dequeue takes a value from both.  The Queue returns the
\* values in the order they were enqueued.
InitTies ==
    /\ pq = NewPriorityQueue
    /\ phist = NoItems
    /\ queue = QNew(NilSlice)
    /\ qhist = [enq |-> <<>>, deq |-> <<>>]
    /\ call = Called("both.New", 0, ZeroValue, FALSE, Nil, Nil, Nil)
    /\ panicked = FALSE
    /\ active = "pq+queue"
    /\ OhmIdle /\ StackIdle /\ SetIdle /\ RootIdle

TiesEnqueue(value, priority) ==
    /\ ~panicked
    /\ Len(queue.cells) < MaxNodes
    /\ \A i \in DOMAIN pq : pq[i].priority = priority
    /\ pq' = PEnqueue(pq, value, priority)
    /\ phist' = [out |-> <<>>, stored |-> phist.stored + 1]
    /\ queue' = QEnqueue(queue, value)
    /\ qhist' = [qhist EXCEPT !.enq = Append(@, value)]
    /\ panicked' = queue'.panicked
    /\ call' = Called("both.Enqueue", priority, value, pq # <<>>, Nil, Nil, Nil)
    /\ UNCHANGED <<ohmVars, active, snap, stack, shist, setA, setB, rootVars>>

\* call.ret is the pair of the values the two Dequeue calls returned
TiesDequeue ==
    /\ ~panicked
    /\ pq' = PDequeue(pq).pq
    /\ phist' = IF phist.stored > 0 /\ pq # <<>>
                THEN [out |-> Append(phist.out, heapPop(pq).item.priority),
                      stored |-> phist.stored - 1]
                ELSE phist
    /\ queue' = QDequeue(queue).queue
    /\ qhist' = IF Len(qhist.enq) > Len(qhist.deq)
                THEN [qhist EXCEPT !.deq = Append(@, QDequeue(queue).value)]
                ELSE qhist
    /\ call' = Called("both.Dequeue", 0, ZeroValue, pq # <<>>, Nil, Nil,
                      <<PDequeue(pq).value, QDequeue(queue).value>>)
    /\ UNCHANGED <<ohmVars, panicked, active, snap, stack, shist, setA, setB, rootVars>>

TiesPeek ==
    /\ ~panicked
    /\ call' = Called("both.Peek", 0, ZeroValue, pq # <<>>, Nil, Nil,
                      <<PPeek(pq), QPeek(queue)>>)
    /\ UNCHANGED <<ohmVars, panicked, active, snap, libVars>>

TiesToSlice ==
    /\ ~panicked
    /\ call' = Called("both.ToSlice", 0, ZeroValue, pq # <<>>, Nil, Nil,
                      <<PToSlice(pq), QToSlice(queue)>>)
    /\ UNCHANGED <<ohmVars, panicked, active, snap, libVars>>

NextTies ==
    \/ \E value \in ValSet, priority \in PrioSet : TiesEnqueue(value, priority)
    \/ TiesDequeue
    \/ TiesPeek
    \/ TiesToSlice

SpecTies == InitTies /\ [][NextTies]_vars

\* ---- HashSet (src/hashset/hashset.go) ----
\* A HashSet is a map from its elements to true: a function on its elements.
SetInputs == {NilSlice} \cup {[isNil |-> FALSE, elems |-> e] : e \in SeqsUpTo(KeySet, MaxSlice)}

\* s[value] = true
HAdd_toggle(s, value) ==
    IF value \in DOMAIN s
    THEN [k \in DOMAIN s \ {value} |-> TRUE]
    ELSE [k \in DOMAIN s \cup {value} |-> TRUE]

HAdd(s, value) == [k \in DOMAIN s \cup {value} |-> TRUE]

\* delete(s, value)
HRemove(s, value) == [k \in DOMAIN s \ {value} |-> s[k]]

HContains(s, value) == value \in DOMAIN s

HSize(s) == Cardinality(DOMAIN s)

HIsEmpty(s) == Cardinality(DOMAIN s) = 0

\* Clear deletes every key
HClear(s) == [k \in {} |-> TRUE]

\* ToSlice: range over a map visits the keys in an order the runtime picks
HToSlice(s) ==
    {sl \in [1..Cardinality(DOMAIN s) -> DOMAIN s] :
        \A i, j \in DOMAIN sl : sl[i] = sl[j] => i = j}

HEquals_noLen(s, other) == \A key \in DOMAIN s : HContains(other, key)

HEquals(s, other) ==
    IF Cardinality(DOMAIN s) # Cardinality(DOMAIN other) THEN FALSE
    ELSE \A key \in DOMAIN s : HContains(other, key)

RECURSIVE HAddAll(_, _)
HAddAll(s, elems) ==
    IF elems = <<>> THEN s ELSE HAddAll(HAdd(s, Head(elems)), Tail(elems))

NewHashSet_skipLast(sli) ==
    HAddAll([k \in {} |-> TRUE], SubSeq(sli.elems, 1, Len(sli.elems) - 1))

\* range over a nil slice runs no iteration
NewHashSet(sli) == HAddAll([k \in {} |-> TRUE], sli.elems)

\* the set a call has as receiver: "a" is setA, "b" is setB
Pick(recv, a, b) == IF recv = "a" THEN a ELSE b

SetCalled(op, recv, key, sli, exists, ret) ==
    [op |-> op, recv |-> recv, key |-> key, slice |-> sli, exists |-> exists, ret |-> ret]

notSet == <<ohmVars, active, snap, queue, qhist, stack, shist, pq, phist, rootVars>>

InitSet ==
    /\ \E sli \in SetInputs :
         /\ setA = NewHashSet(sli)
         /\ call = SetCalled("set.New", "a", 0, sli, FALSE, Nil)
    /\ setB = NewHashSet(NilSlice)
    /\ panicked = FALSE
    /\ active = "set"
    /\ OhmIdle /\ QueueIdle /\ StackIdle /\ PQIdle /\ RootIdle

\* recv receives the set s
Store(recv, s) ==
    /\ setA' = Pick(recv, s, setA)
    /\ setB' = Pick(recv, setB, s)

HashSetNew(recv, sli) ==
    /\ ~panicked
    /\ Store(recv, NewHashSet(sli))
    /\ call' = SetCalled("set.New", recv, 0, sli, FALSE, Nil)
    /\ UNCHANGED <<panicked, notSet>>

HashSetAdd(recv, value) ==
    /\ ~panicked
    /\ Store(recv, HAdd(Pick(recv, setA, setB), value))
    /\ call' = SetCalled("set.Add", recv, value, NilSlice,
                         value \in DOMAIN Pick(recv, setA, setB), Nil)
    /\ UNCHANGED <<panicked, notSet>>

HashSetRemove(recv, value) ==
    /\ ~panicked
    /\ Store(recv, HRemove(Pick(recv, setA, setB), value))
    /\ call' = SetCalled("set.Remove", recv, value, NilSlice,
                         value \in DOMAIN Pick(recv, setA, setB), Nil)
    /\ UNCHANGED <<panicked, notSet>>

HashSetClear(recv) ==
    /\ ~panicked
    /\ Store(recv, HClear(Pick(recv, setA, setB)))
    /\ call' = SetCalled("set.Clear", recv, 0, NilSlice, FALSE, Nil)
    /\ UNCHANGED <<panicked, notSet>>

HashSetObserve(op, recv, key, ret) ==
    /\ ~panicked
    /\ call' = SetCalled(op, recv, key, NilSlice, FALSE, ret)
    /\ UNCHANGED <<setA, setB, panicked, notSet>>

HashSetContains(recv, value) ==
    HashSetObserve("set.Contains", recv, value, HContains(Pick(recv, setA, setB), value))

HashSetSize(recv) == HashSetObserve("set.Size", recv, 0, HSize(Pick(recv, setA, setB)))

HashSetIsEmpty(recv) == HashSetObserve("set.IsEmpty", recv, 0, HIsEmpty(Pick(recv, setA, setB)))

HashSetToSlice(recv) ==
    \E sl \in HToSlice(Pick(recv, setA, setB)) : HashSetObserve("set.ToSlice", recv, 0, sl)

\* recv.Equals(the other set)
HashSetEquals(recv) ==
    HashSetObserve("set.Equals", recv, 0,
               HEquals(Pick(recv, setA, setB), Pick(recv, setB, setA)))

NextSet ==
    \/ \E recv \in {"a", "b"}, sli \in SetInputs : HashSetNew(recv, sli)
    \/ \E recv \in {"a", "b"}, value \in KeySet : HashSetAdd(recv, value)
    \/ \E recv \in {"a", "b"}, value \in KeySet : HashSetRemove(recv, value)
    \/ \E recv \in {"a", "b"} : HashSetClear(recv)
    \/ \E recv \in {"a", "b"}, value \in KeySet : HashSetContains(recv, value)
    \/ \E recv \in {"a", "b"} : HashSetSize(recv)
    \/ \E recv \in {"a", "b"} : HashSetIsEmpty(recv)
    \/ \E recv \in {"a", "b"} : HashSetToSlice(recv)
    \/ \E recv \in {"a", "b"} : HashSetEquals(recv)

SpecSet == InitSet /\ [][NextSet]_vars

\* ---- properties ----
Positions(s, x) == {i \in 1..Len(s) : s[i] = x}

RemoveAt(s, i) == [j \in 1..(Len(s) - 1) |-> IF j < i THEN s[j] ELSE s[j + 1]]

\* C1: after any sequence of Set and Delete calls, Keys() is exactly the keys
\* that were Set and not Deleted since, each once, in the order of the Set
\* calls that inserted them (a re-Set of a present key does not move it).
C1_KeysInInsertionOrder == Keys = histKeys

\* C2: no call on a map built by NewOrderedHashMap raises a runtime failure.
C2_NoRuntimeFailure == ~panicked

\* C3: a Delete of the key held by the tail node of a map with at least two
\* entries leaves last at the new last reachable node, not nil; and a Set of a
\* new key right after such a Delete completes and appends the key to Keys().
C3_DeleteTailMovesTail ==
    [][/\ (call'.op = "Delete" /\ call'.exists /\ call'.node = last /\ size >= 2)
            => /\ last' # Nil
               /\ LET w == Walk(heap', first') IN last' = w[Len(w)]
       /\ \A k \in KeySet :
            (/\ call.op = "Delete" /\ call.exists
             /\ call.prev # Nil /\ heap[call.prev].Next = Nil
             /\ call'.op = "Set" /\ call'.key = k /\ ~call'.exists)
            => /\ ~panicked'
               /\ Keys' = Append(Keys, k)]_vars

\* C4: Size() is the number of distinct keys Set and not Deleted since (a Set
\* of a new key adds 1, of a present key 0; a Delete of a present key
\* subtracts 1, of an absent key 0), and IsEmpty() holds exactly when Size() = 0.
C4_SizeCountsKeys ==
    /\ Size = Cardinality(Range(histKeys))
    /\ Size = Len(histKeys)
    /\ IsEmpty <=> (Size = 0)

\* C5: Delete(k) of a present key followed by Set(k, v) leaves k last in
\* Keys(), after the other keys in their previous order, and Get(k) = (v, true).
C5_DeleteThenSetAppends ==
    [][\A k \in KeySet, v \in ValSet :
         (/\ call.op = "Delete" /\ call.key = k /\ call.exists
          /\ call'.op = "Set" /\ call'.key = k /\ call'.value = v)
         => /\ Keys' = Append(Keys, k)
            /\ Get(k)' = <<v, TRUE>>]_vars

\* C6: Set(k, v) of a present key leaves Keys() and Size() unchanged and
\* changes Values() only at k's position, where the entry becomes v.
C6_SetPresentKeepsPosition ==
    [][(call'.op = "Set" /\ call'.key \in Range(histKeys))
         => /\ Keys' = Keys
            /\ Size' = Size
            /\ Cardinality(Positions(Keys, call'.key)) = 1
            /\ Len(Values') = Len(Values)
            /\ \A i \in 1..Len(Values) :
                 Values'[i] = IF Keys[i] = call'.key THEN call'.value ELSE Values[i]]_vars

\* the middle entry of three was re-Set to a value the others do not have
C6_Witness ==
    /\ call.op = "Set" /\ call.exists /\ call.key = 2 /\ call.value = 1
    /\ Keys = <<1, 2, 3>>
    /\ Values = <<0, 1, 0>>

\* C7: Delete(k) of a present key removes exactly k: Get(k) reports absence,
\* Size() is one less, and Keys()/Values() are the previous sequences without
\* k's single entry, whether k was first, in the middle or last.
C7_DeleteRemovesExactlyKey ==
    [][\A k \in KeySet :
         (call'.op = "Delete" /\ call'.key = k /\ k \in Range(histKeys))
         => /\ Get(k)' = <<ZeroValue, FALSE>>
            /\ Size' = Size - 1
            /\ \E i \in 1..Len(Keys) :
                 /\ Positions(Keys, k) = {i}
                 /\ Keys' = RemoveAt(Keys, i)
                 /\ Values' = RemoveAt(Values, i)]_vars

\* the middle key of three was deleted after it had been re-Set
C7_Witness ==
    /\ call.op = "Delete" /\ call.exists /\ call.key = 2
    /\ call.prev # Nil /\ heap[call.prev].Next # Nil
    /\ Keys = <<1, 3>>
    /\ Values = <<1, 0>>
    /\ Size = 2

\* C8: Delete(k) of an absent key changes nothing: index, first, last, the
\* chain links, the stored values and size are as before.
C8_DeleteAbsentIsNoOp ==
    [][\A k \in KeySet :
         (call'.op = "Delete" /\ call'.key = k /\ k \notin Range(histKeys))
         => UNCHANGED ohmState]_vars

\* an absent key was deleted from a map holding two entries
C8_Witness ==
    /\ call.op = "Delete" /\ ~call.exists
    /\ Size = 2 /\ Len(Keys) = 2

\* C9: Get(k) returns (v, true) with v the value of the most recent Set(k, .)
\* when k is present, also for the zero value, and (zero, false) when k was
\* never Set or was deleted; Get changes nothing.
C9_GetReturnsLatestSet ==
    [][\A k \in KeySet :
         (call'.op = "Get" /\ call'.key = k)
         => /\ call'.ret = IF k \in Range(histKeys)
                           THEN <<histVal[k], TRUE>>
                           ELSE <<ZeroValue, FALSE>>
            /\ UNCHANGED ohmState]_vars

\* Get found a key whose stored value is the zero value, in a map that also
\* holds a non-zero value and has lost a key
C9_Witness ==
    /\ call.op = "Get" /\ call.ret = <<ZeroValue, TRUE>>
    /\ \E k \in DOMAIN m : heap[m[k]].Value # ZeroValue
    /\ \E p \in 1..Len(heap) : heap[p] = Freed

\* C10: ToSlice() has the length of Keys() and of Values(), and its i-th pair
\* is (Keys()[i], Values()[i]).
C10_ToSliceZipsKeysValues ==
    /\ Len(ToSlice) = Len(Keys)
    /\ Len(ToSlice) = Len(Values)
    /\ \A i \in 1..Len(ToSlice) : ToSlice[i] = [Key |-> Keys[i], Value |-> Values[i]]

\* three entries with differing values
C10_Witness ==
    /\ Len(ToSlice) = 3
    /\ Values[1] # Values[2]
    /\ Keys[3] = 1

\* C11: a sequence returned by Keys(), Values() or ToSlice() is a snapshot:
\* a later Set or Delete does not change what the caller reads from it, and
\* overwriting its elements changes nothing that Get, Keys, Values or ToSlice report.
C11_ReturnedSliceIsSnapshot ==
    [][/\ (call'.op \in {"Set", "Delete"}) => SnapRead' = SnapRead
       /\ (call'.op = "Overwrite")
            => /\ Keys' = Keys
               /\ Values' = Values
               /\ ToSlice' = ToSlice
               /\ \A k \in KeySet : Get(k)' = Get(k)
               /\ Size' = Size]_vars

\* the caller overwrote a slot of a two-element Values() result, which now
\* differs from what Values() reports
C11_Witness ==
    /\ call.op = "Overwrite"
    /\ snap.kind = "Values"
    /\ Len(SnapRead) = 2
    /\ Len(Values) = 2
    /\ SnapRead[1] # Values[1]

\* C12: Queue is FIFO: the values returned by the Dequeue calls made on a
\* non-empty queue are a prefix of the sequence of enqueued values (those of
\* the constructor's slice first), in the same order.
C12_QueueIsFIFO ==
    /\ Len(qhist.deq) <= Len(qhist.enq)
    /\ qhist.deq = SubSeq(qhist.enq, 1, Len(qhist.deq))

\* a queue built from a slice and enqueued to was dequeued until empty, and
\* the values came out in the order they went in
C12_Witness ==
    /\ call.op = "queue.Dequeue"
    /\ qhist.enq = <<1, 0, 1>>
    /\ qhist.deq = <<1, 0, 1>>

\* C13: Stack is LIFO: the Pop calls that follow a run of Push calls return the
\* pushed values in reverse order, and every Pop on a non-empty stack returns
\* the most recently pushed value not yet popped.
C13_StackIsLIFO ==
    [][/\ \A i \in 1..Len(shist.popped') :
            i <= Len(shist.pushed')
            => shist.popped'[i] = shist.pushed'[Len(shist.pushed') + 1 - i]
       /\ (call'.op = "stack.Pop" /\ shist.pending # <<>>)
            => call'.ret = shist.pending[Len(shist.pending)]]_vars

\* three pushed values were popped in reverse order
C13_Witness ==
    /\ call.op = "stack.Pop"
    /\ shist.pushed = <<1, 0, 0>>
    /\ shist.popped = <<0, 0, 1>>

\* C14: Pop/Peek on an empty Stack and Dequeue/Peek on an empty Queue return
\* the zero value and leave the container unchanged: top/first/last stay nil
\* and size stays 0, also after the container was emptied by removals.
C14_EmptyReadsReturnZero ==
    [][/\ (call'.op \in {"stack.Pop", "stack.Peek"} /\ shist.pending = <<>>)
            => /\ call'.ret = ZeroValue
               /\ stack' = stack
               /\ stack'.top = Nil /\ stack'.size = 0
       /\ (call'.op \in {"queue.Dequeue", "queue.Peek"} /\ Len(qhist.enq) = Len(qhist.deq))
            => /\ call'.ret = ZeroValue
               /\ queue' = queue
               /\ queue'.first = Nil /\ queue'.last = Nil /\ queue'.size = 0]_vars

\* Dequeue was called on a queue that two earlier Dequeue calls had emptied
C14_Witness ==
    /\ call.op = "queue.Dequeue"
    /\ ~call.exists
    /\ Len(qhist.deq) = 2
    /\ qhist.deq = qhist.enq
    /\ queue.size = 0

BagOf(seq) == [x \in Range(seq) |-> Cardinality({i \in DOMAIN seq : seq[i] = x})]

MinPriority(h) == CHOOSE p \in PrioSet :
    /\ \E i \in DOMAIN h : h[i].priority = p
    /\ \A i \in DOMAIN h : p <= h[i].priority

\* C15: PriorityQueue: repeated Dequeue calls yield non-decreasing priorities
\* (negative and equal ones included), and every Dequeue on a non-empty queue
\* removes one stored item of minimal priority and returns its value.
C15_DequeueYieldsMinimum ==
    [][/\ \A i \in 1..(Len(phist'.out) - 1) : phist'.out[i] <= phist'.out[i + 1]
       /\ (call'.op = "pq.Dequeue" /\ phist.stored > 0)
            => \E i \in DOMAIN pq :
                  /\ pq[i].priority = MinPriority(pq)
                  /\ pq[i].value = call'.ret
                  /\ BagOf(pq') = BagOf(RemoveAt(pq, i))]_vars

\* four items, one of negative priority and two of equal priority, came out in order
C15_Witness ==
    /\ call.op = "pq.Dequeue"
    /\ phist.out = <<0 - 1, 0, 0, 1>>
    /\ pq = <<>>

\* C16: Peek on a non-empty PriorityQueue returns the value of an item of
\* minimal priority and changes nothing; a Dequeue that follows it returns
\* that same value.
C16_PeekShowsNextDequeue ==
    [][/\ (call'.op = "pq.Peek" /\ phist.stored > 0)
            => /\ pq' = pq
               /\ \E x \in Range(pq) :
                     x.priority = MinPriority(pq) /\ x.value = call'.ret
       /\ (call.op = "pq.Peek" /\ call'.op = "pq.Dequeue" /\ phist.stored > 0)
            => call'.ret = call.ret]_vars

\* Peek found value 1 at minimal priority among four items, the others 0
C16_Witness ==
    /\ call.op = "pq.Peek"
    /\ call.ret = 1
    /\ Len(pq) = 4
    /\ Cardinality({i \in DOMAIN pq : pq[i].value = 0}) = 3
    /\ Cardinality({i \in DOMAIN pq : pq[i].priority = 0 - 1}) = 1

\* C17: Dequeue and Peek on an empty PriorityQueue return the zero value and
\* leave the queue empty with Size 0; heap.Pop is not run on an empty heap.
C17_EmptyPQReturnsZero ==
    [][(call'.op \in {"pq.Dequeue", "pq.Peek"} /\ phist.stored = 0)
          => /\ call'.ret = ZeroValue
             /\ pq' = <<>>
             /\ PSize(pq') = 0
             /\ phist' = phist]_vars

\* Dequeue was called on a queue that an earlier Dequeue had emptied
C17_Witness ==
    /\ call.op = "pq.Dequeue"
    /\ ~call.exists
    /\ phist.out = <<0 - 1>>
    /\ pq = <<>>

\* C18: NewHashSet(s), for s nil, empty or with duplicates, yields a set whose
\* Size is the number of distinct elements of s and whose Contains is true for
\* exactly the elements of s.
C18_NewHashSetDedups ==
    call.op = "set.New"
      => LET s == Pick(call.recv, setA, setB)
         IN  /\ HSize(s) = Cardinality(Range(call.slice.elems))
             /\ \A x \in KeySet : HContains(s, x) <=> x \in Range(call.slice.elems)

\* a set was built from a slice with a duplicate
C18_Witness ==
    /\ call.op = "set.New"
    /\ call.recv = "b"
    /\ call.slice.elems = <<1, 2, 1>>
    /\ HSize(setB) = 2
    /\ HSize(setA) = 3

\* C19: a.Equals(b) is true exactly when a and b hold the same elements; it is
\* symmetric, and a call of Equals modifies neither set.
C19_EqualsIsSetEquality ==
    [][/\ HEquals(setA', setB') <=> (DOMAIN setA' = DOMAIN setB')
       /\ HEquals(setA', setB') = HEquals(setB', setA')
       /\ (call'.op = "set.Equals")
            => /\ call'.ret = (DOMAIN setA = DOMAIN setB)
               /\ setA' = setA /\ setB' = setB]_vars

\* Equals answered false for two sets of the same size
C19_Witness ==
    /\ call.op = "set.Equals"
    /\ call.ret = FALSE
    /\ DOMAIN setA = {1, 2}
    /\ DOMAIN setB = {2, 3}

\* C20: Add and Remove are idempotent.  Add(x) makes Contains(x) true and
\* grows Size by 1 only if x was absent; Remove(x) makes Contains(x) false and
\* changes nothing if x was absent; a second identical Add or Remove leaves
\* the set as the first one left it.
C20_AddRemoveIdempotent ==
    [][LET s  == Pick(call'.recv, setA, setB)
           s2 == Pick(call'.recv, setA', setB')
           x  == call'.key
           repeated == call.op = call'.op /\ call.recv = call'.recv /\ call.key = x
       IN  /\ (call'.op = "set.Add")
                => /\ HContains(s2, x)
                   /\ HSize(s2) = HSize(s) + (IF HContains(s, x) THEN 0 ELSE 1)
                   /\ \A y \in KeySet \ {x} : HContains(s2, y) <=> HContains(s, y)
                   /\ repeated => s2 = s
           /\ (call'.op = "set.Remove")
                => /\ ~HContains(s2, x)
                   /\ ~HContains(s, x) => s2 = s
                   /\ \A y \in KeySet \ {x} : HContains(s2, y) <=> HContains(s, y)
                   /\ repeated => s2 = s]_vars

\* Add of an element the set already held
C20_Witness ==
    /\ call.op = "set.Add"
    /\ call.exists
    /\ call.recv = "a"
    /\ DOMAIN setA = {1, 3}

\* C21: New(s) gives a Queue whose ToSlice() is s and a Stack whose ToSlice()
\* is the reverse of s, each with Size() = len(s); a nil or empty s gives an
\* empty container.
C21_NewKeepsInputOrder ==
    /\ call.op = "queue.New"
         => /\ QToSlice(queue) = qhist.enq
            /\ QSize(queue) = Len(qhist.enq)
            /\ qhist.enq = <<>> => QIsEmpty(queue) /\ queue.first = Nil /\ queue.last = Nil
    /\ call.op = "stack.New"
         => /\ SToSlice(stack) = Reverse(shist.pushed)
            /\ SSize(stack) = Len(shist.pushed)
            /\ shist.pushed = <<>> => SIsEmpty(stack) /\ stack.top = Nil

\* a Stack built from <<0, 1>> has 1 on top
C21_Witness ==
    /\ call.op = "stack.New"
    /\ shist.pushed = <<0, 1>>
    /\ SToSlice(stack) = <<1, 0>>
    /\ SPeek(stack) = 1

\* C22: ToSlice() of a Stack or a Queue returns the current elements in
\* removal order (the order successive Pop/Dequeue calls would return them)
\* and does not modify the container; the returned slice is an independent
\* copy: overwriting its elements changes neither Peek() nor later ToSlice()
\* results.
C22_ToSliceIsOrderedCopy ==
    [][/\ (call'.op = "queue.ToSlice")
            => /\ call'.ret = SubSeq(qhist.enq, Len(qhist.deq) + 1, Len(qhist.enq))
               /\ queue' = queue
       /\ (call'.op = "stack.ToSlice")
            => /\ call'.ret = Reverse(shist.pending)
               /\ stack' = stack
       /\ (call'.op = "queue.Overwrite")
            => /\ QPeek(queue') = QPeek(queue)
               /\ QToSlice(queue') = QToSlice(queue)
       /\ (call'.op = "stack.Overwrite")
            => /\ SPeek(stack') = SPeek(stack)
               /\ SToSlice(stack') = SToSlice(stack)]_vars

\* the first element of a Queue's slice was overwritten and the front is unchanged
C22_Witness ==
    /\ call.op = "queue.Overwrite"
    /\ call.key = 1
    /\ Len(SliceRead) = 3
    /\ SliceRead[1] = 1
    /\ QPeek(queue) = 0
    /\ QToSlice(queue) = <<0, 1, 1>>

\* C23: Clear() leaves the PriorityQueue empty (Size 0, IsEmpty, Peek returns
\* the zero value) and usable: an Enqueue after it gives a queue that holds
\* just the new item, the queue holds as many items as were enqueued and not
\* dequeued since, and they are dequeued in non-decreasing priority order; no
\* item enqueued before the Clear is stored or returned again.
C23_ClearEmptiesAndStaysUsable ==
    [][/\ (call'.op = "pq.Clear")
            => /\ PSize(pq') = 0
               /\ PIsEmpty(pq')
               /\ PPeek(pq') = ZeroValue
               /\ PDequeue(pq').value = ZeroValue
       /\ (call.op = "pq.Clear" /\ call'.op = "pq.Enqueue")
            => pq' = <<Item(call'.value, call'.key)>>
       /\ PSize(pq') = phist'.stored
       /\ (call'.op = "pq.Dequeue" /\ Len(phist.out) > 0 /\ phist.stored > 0)
            => phist.out[Len(phist.out)] <= phist'.out[Len(phist'.out)]]_vars

\* Clear was called on a queue that held items
C23_Witness ==
    /\ call.op = "pq.Clear"
    /\ call.exists
    /\ pq = <<>>
    /\ phist.stored = 0

\* C24: ToSlice() of a PriorityQueue returns a slice of length Size() that
\* holds the stored values in heap array order (its first element is Peek()
\* when the queue is not empty) and leaves the queue as it is; the slice is
\* an independent copy: a write to it does not change the queue.
C24_PQToSliceIsHeapOrderCopy ==
    [][/\ (call'.op = "pq.ToSlice")
            => /\ Len(call'.ret) = PSize(pq)
               /\ Len(call'.ret) = phist.stored
               /\ \A i \in DOMAIN pq : call'.ret[i] = pq[i].value
               /\ pq # <<>> => call'.ret[1] = PPeek(pq)
               /\ pq' = pq
       /\ (call'.op = "pq.Overwrite")
            => /\ pq' = pq
               /\ PPeek(pq') = PPeek(pq)
               /\ PToSlice(pq') = PToSlice(pq)]_vars

\* the first element of the slice was overwritten and differs from Peek()
C24_Witness ==
    /\ call.op = "pq.Overwrite"
    /\ call.key = 1
    /\ Len(PSliceRead) = 3
    /\ PSliceRead[1] = 1
    /\ PPeek(pq) = 0
    /\ PToSlice(pq) = <<0, 1, 0>>

\* C25: in every state reachable by Set/Delete from a new OrderedHashMap,
\* first is nil if and only if size = 0 if and only if last is nil.
C25_EndsNilIffEmpty ==
    /\ (first = Nil) <=> (size = 0)
    /\ (size = 0) <=> (last = Nil)

\* C26: in every reachable state with a non-nil last, last.Next is nil and
\* last is the last node reached by walking the chain from first.
C26_TailIsEndOfChain ==
    last # Nil
      => LET w == Walk(heap, first)
         IN  /\ heap[last].Next = Nil
             /\ Len(w) > 0
             /\ last = w[Len(w)]

\* a Delete of the middle key of three left the tail in place
C26_Witness ==
    /\ call.op = "Delete"
    /\ call.exists
    /\ call.prev # Nil
    /\ last # Nil
    /\ Len(Walk(heap, first)) = 2

\* C27: in every reachable state the index and the chain describe the same
\* entries: every key of the index maps to a node reachable from first that
\* stores that key, every reachable node has its key in the index, and no key
\* is stored on two reachable nodes.
C27_IndexMatchesChain ==
    LET w == Walk(heap, first)
    IN  /\ \A k \in DOMAIN m : m[k] \in Range(w) /\ heap[m[k]].Key = k
        /\ \A p \in Range(w) : heap[p].Key \in DOMAIN m
        /\ \A i, j \in 1..Len(w) : heap[w[i]].Key = heap[w[j]].Key => i = j

\* a Delete unlinked a node that was not the first one
C27_Witness ==
    /\ call.op = "Delete"
    /\ call.exists
    /\ call.prev # Nil
    /\ DOMAIN m = {1, 3}
    /\ Keys = <<3, 1>>

\* C28: in every reachable state size is the number of keys of the index and
\* the number of nodes reachable from first, so len(Keys()) = Size().
C28_SizeMatchesIndexAndChain ==
    /\ size = Cardinality(DOMAIN m)
    /\ size = Len(Walk(heap, first))
    /\ Len(Keys) = Size

\* a Delete of a present key took the size from 3 to 2
C28_Witness ==
    /\ call.op = "Delete"
    /\ call.exists
    /\ size = 2
    /\ Cardinality(DOMAIN m) = 2

\* C29: every state with size = 1 has first = last, both the same non-nil
\* node, and every state with size >= 2 has first # last, both non-nil.
C29_ChainConfigurations ==
    /\ size = 1 => first # Nil /\ first = last
    /\ size >= 2 => first # Nil /\ last # Nil /\ first # last

\* C30: in every state of a Queue reachable by New/Enqueue/Dequeue/Clear, size
\* is the number of nodes reachable from first; first is nil iff last is nil
\* iff size = 0; a non-nil last is reachable from first and last.Next is nil.
\* An Enqueue on a drained queue starts a fresh chain of one node.
C30_QueueChainInvariant ==
    [][LET w == Walk(queue'.cells, queue'.first)
       IN  /\ queue'.size = Len(w)
           /\ (queue'.first = Nil) <=> (queue'.last = Nil)
           /\ (queue'.last = Nil) <=> (queue'.size = 0)
           /\ queue'.last # Nil
                => /\ queue'.last \in Range(w)
                   /\ queue'.cells[queue'.last].Next = Nil
           /\ (call'.op = "queue.Enqueue" /\ Len(qhist.enq) = Len(qhist.deq))
                => /\ queue'.first = queue'.last
                   /\ queue'.first = Len(queue.cells) + 1
                   /\ queue'.size = 1
           /\ ~panicked']_vars

\* an Enqueue on a queue that two Dequeue calls had drained
C30_Witness ==
    /\ call.op = "queue.Enqueue"
    /\ ~call.exists
    /\ Len(qhist.deq) = 2
    /\ Len(qhist.enq) = 3
    /\ queue.first = 3
    /\ queue.last = 3
    /\ queue.size = 1

\* C31: in every state of a Stack reachable by New/Push/Pop/Clear, size is the
\* number of nodes reachable from top, size >= 0, and top is nil iff size = 0;
\* Push raises size by exactly 1 and Pop on a non-empty stack lowers it by
\* exactly 1.
C31_StackSizeInvariant ==
    [][/\ stack'.size = Len(Walk(stack'.cells, stack'.top))
       /\ stack'.size >= 0
       /\ (stack'.top = Nil) <=> (stack'.size = 0)
       /\ (call'.op = "stack.Push") => SSize(stack') = SSize(stack) + 1
       /\ (call'.op = "stack.Pop" /\ shist.pending # <<>>)
            => SSize(stack') = SSize(stack) - 1]_vars

\* a Pop took a stack of three elements to two
C31_Witness ==
    /\ call.op = "stack.Pop"
    /\ call.exists
    /\ Len(shist.pending) = 2
    /\ SSize(stack) = 2
    /\ Len(stack.cells) = 3

\* C32: after every completed Enqueue, Dequeue or Clear the backing array of
\* the PriorityQueue is in min-heap order: for every index i > 0 the priority
\* at the parent index (i-1)/2 is at most the priority at i.
C32_HeapOrder ==
    \A i \in 1..(Len(pq) - 1) :
        pq[Quot(i - 1, 2) + 1].priority <= pq[i + 1].priority

\* a Dequeue sifted the last item down past the smaller, right child
C32_Witness ==
    /\ call.op = "pq.Dequeue"
    /\ Len(pq) = 3
    /\ pq[1].priority = 0
    /\ pq[2].priority = 1
    /\ pq[3].priority = 1
    /\ phist.out = <<0 - 1>>

\* C33: the PriorityQueue gives no FIFO stability among equal priorities.
\* Ties are settled by the positions in the heap array: an Enqueue of an equal
\* priority appends the item, a Dequeue returns the item at index 0 and moves
\* the last item of the array to index 0, in front of the items enqueued
\* before it.  (The behaviour with a different order is C33_Witness.)
C33_TiesFollowHeapArray ==
    [][/\ (call'.op = "both.Enqueue")
            => pq' = Append(pq, Item(call'.value, call'.key))
       /\ (call'.op = "both.Dequeue" /\ phist.stored > 0)
            => /\ call'.ret[1] = pq[1].value
               /\ Len(pq) >= 2 => pq'[1] = pq[Len(pq)]
               /\ \A i \in 2..Len(pq') : pq'[i] = pq[i]
       /\ PSize(pq') = QSize(queue')]_vars

\* values 0, 1, 0 were enqueued with one priority; the second Dequeue returned
\* the third value (0) where the order of the Enqueue calls gives the second (1)
C33_Witness ==
    /\ call.op = "both.Dequeue"
    /\ qhist.enq = <<0, 1, 0>>
    /\ qhist.deq = <<0, 1>>
    /\ call.ret = <<0, 1>>
    /\ phist.out = <<0, 0>>
    /\ PToSlice(pq) = <<1>>
    /\ QToSlice(queue) = <<0>>

Count(seq, x) == Cardinality({i \in DOMAIN seq : seq[i] = x})

\* C34: the PriorityQueue conserves items.  Enqueue adds exactly one
\* (value, priority) item and raises Size() by 1; Dequeue on a non-empty queue
\* removes exactly one item, of minimal priority, and lowers Size() by 1.  So
\* without Clear the stored multiset is the enqueued items minus the dequeued
\* ones, and Size() is their number.
C34_ItemsConserved ==
    [][/\ (call'.op = "pq.Enqueue")
            => /\ PSize(pq') = PSize(pq) + 1
               /\ \A i \in DOMAIN pq' :
                    Count(pq', pq'[i]) = Count(pq, pq'[i])
                        + (IF pq'[i] = Item(call'.value, call'.key) THEN 1 ELSE 0)
       /\ (call'.op = "pq.Dequeue" /\ phist.stored > 0)
            => /\ PSize(pq') = PSize(pq) - 1
               /\ \E i \in DOMAIN pq :
                    /\ pq[i].priority = phist'.out[Len(phist'.out)]
                    /\ \A j \in DOMAIN pq : pq[i].priority <= pq[j].priority
                    /\ \A j \in DOMAIN pq :
                         Count(pq', pq[j]) = Count(pq, pq[j]) - (IF pq[j] = pq[i] THEN 1 ELSE 0)
       /\ (call'.op = "pq.Size") => pq' = pq /\ call'.ret = phist.stored
       /\ PSize(pq') = phist'.stored]_vars

\* an Enqueue onto three items put the new item at the root
C34_Witness ==
    /\ call.op = "pq.Enqueue"
    /\ Len(pq) = 4
    /\ phist.stored = 4
    /\ pq[1] = Item(call.value, call.key)
    /\ pq[1].priority < pq[2].priority

\* C35: Clear() leaves a Stack or a Queue as a newly constructed empty one
\* (top/first/last nil, size 0, nothing to return), and the calls after a
\* Clear give the results they give on a new empty container: what the
\* container holds and returns is determined by the Push/Enqueue and
\* Pop/Dequeue calls made since the Clear, whatever it held before.
C35_ClearGivesNewContainer ==
    [][/\ (call'.op = "queue.Clear")
            => /\ queue'.first = Nil /\ queue'.last = Nil /\ queue'.size = 0
               /\ QToSlice(queue') = QToSlice(EmptyQueue)
               /\ QPeek(queue') = QPeek(EmptyQueue)
               /\ QIsEmpty(queue')
       /\ (call'.op = "stack.Clear")
            => /\ stack'.top = Nil /\ stack'.size = 0
               /\ SToSlice(stack') = SToSlice(EmptyStack)
               /\ SPeek(stack') = SPeek(EmptyStack)
               /\ SIsEmpty(stack')
       /\ QToSlice(queue') = SubSeq(qhist'.enq, Len(qhist'.deq) + 1, Len(qhist'.enq))
       /\ QSize(queue') = Len(qhist'.enq) - Len(qhist'.deq)
       /\ SToSlice(stack') = Reverse(shist'.pending)
       /\ SSize(stack') = Len(shist'.pending)
       /\ (call'.op = "queue.Dequeue")
            => call'.ret = IF Len(qhist.enq) > Len(qhist.deq)
                           THEN qhist.enq[Len(qhist.deq) + 1] ELSE ZeroValue
       /\ (call'.op = "stack.Pop")
            => call'.ret = IF shist.pending # <<>>
                           THEN shist.pending[Len(shist.pending)] ELSE ZeroValue]_vars

\* an Enqueue after a Clear of a queue that held two elements
C35_Witness ==
    /\ call.op = "queue.Enqueue"
    /\ ~call.exists
    /\ Len(queue.cells) = 3
    /\ qhist.enq = <<1>>
    /\ qhist.deq = <<>>
    /\ QToSlice(queue) = <<1>>
    /\ queue.cells[1].Value = 0

\* C36: Peek() of a Queue returns the value the next Dequeue() will return
\* and changes nothing; on a non-empty queue Enqueue does not change what
\* Peek() returns: the front stays the oldest element.
C36_PeekIsNextDequeue ==
    [][/\ (call'.op = "queue.Peek")
            => /\ queue' = queue
               /\ call'.ret = QDequeue(queue).value
               /\ call'.ret = IF Len(qhist.enq) > Len(qhist.deq)
                              THEN qhist.enq[Len(qhist.deq) + 1] ELSE ZeroValue
       /\ (call.op = "queue.Peek" /\ call'.op = "queue.Dequeue")
            => call'.ret = call.ret
       /\ (call'.op = "queue.Enqueue" /\ Len(qhist.enq) > Len(qhist.deq))
            => QPeek(queue') = QPeek(queue)]_vars

\* Peek returned the front of a queue whose later elements differ from it
C36_Witness ==
    /\ call.op = "queue.Peek"
    /\ call.ret = 1
    /\ qhist.enq = <<0, 1, 0>>
    /\ qhist.deq = <<0>>
    /\ QToSlice(queue) = <<1, 0>>

\* C37: lookup and traversal of the OrderedHashMap agree: in every reachable
\* state Get(Keys()[i]) returns (Values()[i], true) for each position i, and
\* Get(k) returns found = false for every key k not in Keys().
C37_GetAgreesWithTraversal ==
    /\ Len(Values) = Len(Keys)
    /\ \A i \in 1..Len(Keys) : Get(Keys[i]) = <<Values[i], TRUE>>
    /\ \A k \in KeySet \ Range(Keys) : Get(k)[2] = FALSE

\* two entries with different values and a deleted key
C37_Witness ==
    /\ call.op = "Delete"
    /\ call.exists
    /\ Keys = <<1, 3>>
    /\ Values = <<0, 1>>
    /\ Get(2) = <<ZeroValue, FALSE>>

\* following Next from p reaches nil within n steps
RECURSIVE ReachesNil(_, _, _)
ReachesNil(h, p, n) ==
    IF p = Nil THEN TRUE
    ELSE IF n = 0 THEN FALSE
    ELSE ReachesNil(h, h[p].Next, n - 1)

\* C38: every operation terminates: in every reachable state of the
\* OrderedHashMap, the Queue and the Stack the chain of nodes from
\* first/top is finite and acyclic (it reaches nil within as many steps as
\* there are nodes), so the predecessor scan of Delete and the walks of
\* Keys/Values/ToSlice reach the end of the chain.
C38_ChainsAreAcyclic ==
    /\ ReachesNil(heap, first, Len(heap))
    /\ ReachesNil(heap, last, Len(heap))
    /\ ReachesNil(queue.cells, queue.first, Len(queue.cells))
    /\ ReachesNil(stack.cells, stack.top, Len(stack.cells))
    /\ size = Len(Walk(heap, first))

\* the predecessor scan of a Delete went past the first node
C38_Witness ==
    /\ active = "ohm"
    /\ call.op = "Delete"
    /\ call.exists
    /\ call.prev # Nil
    /\ call.prev # first
    /\ Len(Walk(heap, first)) = 2

\* C39: Stack Push/Pop round trip: for any stack state and value v, Push(v)
\* followed by Pop() returns v and restores the previous observable state:
\* the same ToSlice(), Size() and Peek() as before the Push.
C39_PushPopRoundTrip ==
    [][/\ call'.op = "stack.Push" =>
            LET r == SPop(stack')
            IN  /\ r.value = call'.value
                /\ SToSlice(r.stack) = SToSlice(stack)
                /\ SSize(r.stack) = SSize(stack)
                /\ SPeek(r.stack) = SPeek(stack)
       /\ (call.op = "stack.Push" /\ call'.op = "stack.Pop") =>
            /\ call'.ret = call.value
            /\ stack' = SPop(stack).stack
            /\ SToSlice(stack') = Tail(SToSlice(stack))
            /\ SSize(stack') = SSize(stack) - 1]_vars

\* 1 was pushed on a stack holding two 0s and popped again
C39_Witness ==
    /\ active = "stack"
    /\ call.op = "stack.Pop"
    /\ call.ret = 1
    /\ shist.popped = <<1>>
    /\ SToSlice(stack) = <<0, 0>>
    /\ SSize(stack) = 2
    /\ SPeek(stack) = 0

PairReturns == {"pair.Dequeue", "pair.Pop",
                "pair.Queue.Peek", "pair.Queue.Size", "pair.Queue.IsEmpty", "pair.Queue.ToSlice",
                "pair.Stack.Peek", "pair.Stack.Size", "pair.Stack.IsEmpty", "pair.Stack.ToSlice"}

\* C40: the root-package copies of Queue and Stack (package gollections) are
\* observationally equivalent to queue.Queue and stack.Stack: run side by
\* side on the same sequence of construct/Enqueue/Dequeue/Push/Pop/Peek/Clear
\* calls, they return the same values and report the same Size() and
\* ToSlice().
C40_RootCopiesAreEquivalent ==
    /\ call.op \in PairReturns => call.ret[1] = call.ret[2]
    /\ RootQueueSize(rootQueue) = QSize(queue)
    /\ RootQueueToSlice(rootQueue) = QToSlice(queue)
    /\ RootQueuePeek(rootQueue) = QPeek(queue)
    /\ RootQueueIsEmpty(rootQueue) = QIsEmpty(queue)
    /\ RootStackSize(rootStack) = SSize(stack)
    /\ RootStackToSlice(rootStack) = SToSlice(stack)
    /\ RootStackPeek(rootStack) = SPeek(stack)
    /\ RootStackIsEmpty(rootStack) = SIsEmpty(stack)

\* both queues returned 1 from Dequeue and hold 0, 1 afterwards
C40_Witness ==
    /\ active = "pair.queue"
    /\ call.op = "pair.Dequeue"
    /\ call.ret = <<1, 1>>
    /\ RootQueueToSlice(rootQueue) = <<0, 1>>
    /\ QToSlice(queue) = <<0, 1>>
    /\ RootQueueSize(rootQueue) = 2
====
